---- MODULE Spec2Model ----
(***************************************************************************)
(* node-identifier: the batch orchestrator NodeIdentifier::handle_event,   *)
(* the graph rewriter (remove_dead_nodes, remap_edges) and the publisher   *)
(* (upload_identified_graphs) of src/node-identifier/src/lib.rs.           *)
(*                                                                         *)
(* The history-store resolvers (ip_asset_history, session_history), the    *)
(* identity cache and the graph container (graph_descriptions) are not     *)
(* part of lib.rs; they are modelled from the design text, sections 4.1    *)
(* to 4.4.                                                                 *)
(***************************************************************************)
EXTENDS Integers, Sequences, FiniteSets, TLC

\* ------------------------------------------------------------------ bounds
MaxEvents == 2   \* longest batch
MaxTime == 2     \* event timestamps are 1..MaxTime
MaxList == 2     \* longest edge list of a subgraph given to the rewriter alone
MaxInvocations == 2  \* invocations of the entry point by one worker process
MaxDay == 2      \* upload times lie in the days 0..MaxDay after the epoch
MaxBody == 2     \* longest encoding given to the publisher alone
MaxUploads == 2  \* uploads of one encoding by the publisher alone

Timestamps == 1..MaxTime

\* Event-local (ephemeral) node keys of the batches.  "a" is an asset-typed
\* node, "p" a session-typed (process) node; the key also stands for the raw
\* descriptor of the node, so "p" of two events is the same raw process id.
AssetKeys == {"a"}
SessionKeys == {"p"}
NodeKeys == AssetKeys \cup SessionKeys

NodeTypeOf(k) == IF k \in AssetKeys THEN "Asset" ELSE "Process"

\* Edges an input subgraph may carry.  An edge is drawn independently of
\* the node set, so an input can hold an edge whose endpoint is not one of
\* its nodes (nothing validates the decoded input).
Edge(n, f, t) == [edge_name |-> n, from_neighbor_key |-> f, to_neighbor_key |-> t]
EdgePool == { Edge("hosts", "a", "p"), Edge("ran_on", "p", "a") }

\* ------------------------------------------------------- generic helpers
Restrict(f, S) == [x \in S |-> f[x]]

EmptyMap == [x \in {} |-> x]

\* f overridden / extended by g
Override(f, g) ==
  [x \in DOMAIN f \cup DOMAIN g |-> IF x \in DOMAIN g THEN g[x] ELSE f[x]]

Range(s) == { s[i] : i \in DOMAIN s }

\* the sequences enumerating the finite set S without repetition
Orders(S) ==
  { s \in [1..Cardinality(S) -> S] : \A i, j \in 1..Cardinality(S) : s[i] = s[j] => i = j }

\* --------------------------------------------------------------- results
\* Result<(), Error>: Ok, or the error of a stage of an event
Ok == [kind |-> "ok", evt |-> 0]
Err(k, i) == [kind |-> k, evt |-> i]
IsErr(r) == r.kind # "ok"

\* ------------------------------------------------------------ Graph Model
\* GraphDescription::new(timestamp)
NewGraph(ts) == [timestamp |-> ts, nodes |-> EmptyMap, edges |-> EmptyMap]

\* GraphDescription::add_edge: appends to the edge list keyed by `from`
add_edge(g, name, from, to) ==
  LET e == Edge(name, from, to)
      old == IF from \in DOMAIN g.edges THEN g.edges[from] ELSE << >>
  IN [g EXCEPT !.edges = Override(g.edges, [k \in {from} |-> Append(old, e)])]

\* the edges of list b that list a does not hold yet, in b's order
RECURSIVE NewEdges(_, _)
NewEdges(a, b) ==
  IF b = << >> THEN << >>
  ELSE IF Head(b) \in Range(a) THEN NewEdges(a, Tail(b))
       ELSE << Head(b) >> \o NewEdges(Append(a, Head(b)), Tail(b))

\* GraphDescription::merge: union of nodes and of edges by key; on a node-key
\* collision the merged-in node overwrites (events are merged in timestamp
\* order, so the later timestamp wins)
merge(self, other) ==
  [self EXCEPT
     !.nodes = Override(self.nodes, other.nodes),
     !.edges = [k \in DOMAIN self.edges \cup DOMAIN other.edges |->
                  IF k \notin DOMAIN other.edges THEN self.edges[k]
                  ELSE IF k \notin DOMAIN self.edges THEN NewEdges(<< >>, other.edges[k])
                  ELSE self.edges[k] \o NewEdges(self.edges[k], other.edges[k])]]

AllEdges(g) == UNION { Range(g.edges[k]) : k \in DOMAIN g.edges }

NonEmpty(g) == DOMAIN g.nodes # {} \/ AllEdges(g) # {}

\* ---------------------------------------------------------- Graph Rewriter
\* remove_dead_nodes, with a prune that forgets the `to` endpoint
remove_dead_nodes_FromOnly(dead_node_ids, unid_subgraph) ==
  [unid_subgraph EXCEPT
     !.nodes = Restrict(unid_subgraph.nodes, DOMAIN unid_subgraph.nodes \ dead_node_ids),
     !.edges = [k \in DOMAIN unid_subgraph.edges |->
                  SelectSeq(unid_subgraph.edges[k],
                            LAMBDA e : e.from_neighbor_key \notin dead_node_ids)]]

\* remove_dead_nodes that builds each new list by inserting at its front
Reverse(s) == [i \in 1..Len(s) |-> s[Len(s) + 1 - i]]

remove_dead_nodes_Reversed(dead_node_ids, unid_subgraph) ==
  [unid_subgraph EXCEPT
     !.nodes = Restrict(unid_subgraph.nodes, DOMAIN unid_subgraph.nodes \ dead_node_ids),
     !.edges = [k \in DOMAIN unid_subgraph.edges |->
                  Reverse(SelectSeq(unid_subgraph.edges[k],
                            LAMBDA e : ~ (e.from_neighbor_key \in dead_node_ids
                                          \/ e.to_neighbor_key \in dead_node_ids)))]]

\* remove_dead_nodes that leaves the subgraph as it is
remove_dead_nodes_Noop(dead_node_ids, unid_subgraph) == unid_subgraph

\* remove_dead_nodes: removes the node entries whose key is dead, then
\* rebuilds every edge list without the edges touching a dead key
remove_dead_nodes(dead_node_ids, unid_subgraph) ==
  [unid_subgraph EXCEPT
     !.nodes = Restrict(unid_subgraph.nodes, DOMAIN unid_subgraph.nodes \ dead_node_ids),
     !.edges = [k \in DOMAIN unid_subgraph.edges |->
                  SelectSeq(unid_subgraph.edges[k],
                            LAMBDA e : ~ (e.from_neighbor_key \in dead_node_ids
                                          \/ e.to_neighbor_key \in dead_node_ids))]]

\* the loop body of remap_edges over one edge list; acc is the output built
\* so far, `used` the input edges an output edge was made from
RECURSIVE RemapList(_, _, _, _)
RemapList(key_map, dead_node_ids, list, acc) ==
  IF list = << >> \/ acc.panic THEN acc
  ELSE LET edge == Head(list) IN
    IF edge.from_neighbor_key \in dead_node_ids
      THEN RemapList(key_map, dead_node_ids, Tail(list), acc)
    ELSE IF edge.to_neighbor_key \in dead_node_ids
      THEN RemapList(key_map, dead_node_ids, Tail(list), acc)
    ELSE IF edge.from_neighbor_key \notin DOMAIN key_map
            \/ edge.to_neighbor_key \notin DOMAIN key_map
      THEN [acc EXCEPT !.panic = TRUE]   \* .expect("from_neighbor_key") / ("to_neighbor_key")
    ELSE RemapList(key_map, dead_node_ids, Tail(list),
           [acc EXCEPT !.out = add_edge(acc.out, edge.edge_name,
                                        key_map[edge.from_neighbor_key],
                                        key_map[edge.to_neighbor_key]),
                       !.used = acc.used \cup {edge}])

RECURSIVE RemapLists(_, _, _, _, _)
RemapLists(key_map, dead_node_ids, input_subgraph, order, acc) ==
  IF order = << >> THEN acc
  ELSE RemapLists(key_map, dead_node_ids, input_subgraph, Tail(order),
                  RemapList(key_map, dead_node_ids, input_subgraph.edges[Head(order)], acc))

\* remap_edges that rewrites the `from` key only and keeps the event-local `to`
RECURSIVE RemapList_RawTo(_, _, _, _)
RemapList_RawTo(key_map, dead_node_ids, list, acc) ==
  IF list = << >> \/ acc.panic THEN acc
  ELSE LET edge == Head(list) IN
    IF edge.from_neighbor_key \in dead_node_ids \/ edge.to_neighbor_key \in dead_node_ids
      THEN RemapList_RawTo(key_map, dead_node_ids, Tail(list), acc)
    ELSE IF edge.from_neighbor_key \notin DOMAIN key_map
            \/ edge.to_neighbor_key \notin DOMAIN key_map
      THEN [acc EXCEPT !.panic = TRUE]
    ELSE RemapList_RawTo(key_map, dead_node_ids, Tail(list),
           [acc EXCEPT !.out = add_edge(acc.out, edge.edge_name,
                                        key_map[edge.from_neighbor_key],
                                        edge.to_neighbor_key),
                       !.used = acc.used \cup {edge}])

RECURSIVE RemapLists_RawTo(_, _, _, _, _)
RemapLists_RawTo(key_map, dead_node_ids, input_subgraph, order, acc) ==
  IF order = << >> THEN acc
  ELSE RemapLists_RawTo(key_map, dead_node_ids, input_subgraph, Tail(order),
         RemapList_RawTo(key_map, dead_node_ids, input_subgraph.edges[Head(order)], acc))

remap_edges_RawTo(key_map, dead_node_ids, input_subgraph, output_subgraph, order) ==
  RemapLists_RawTo(key_map, dead_node_ids, input_subgraph, order,
                   [panic |-> FALSE, out |-> output_subgraph, used |-> {}])

\* remap_edges that skips an edge for a dead `to` endpoint only
RECURSIVE RemapList_ToOnly(_, _, _, _)
RemapList_ToOnly(key_map, dead_node_ids, list, acc) ==
  IF list = << >> \/ acc.panic THEN acc
  ELSE LET edge == Head(list) IN
    IF edge.to_neighbor_key \in dead_node_ids
      THEN RemapList_ToOnly(key_map, dead_node_ids, Tail(list), acc)
    ELSE IF edge.from_neighbor_key \notin DOMAIN key_map
            \/ edge.to_neighbor_key \notin DOMAIN key_map
      THEN [acc EXCEPT !.panic = TRUE]
    ELSE RemapList_ToOnly(key_map, dead_node_ids, Tail(list),
           [acc EXCEPT !.out = add_edge(acc.out, edge.edge_name,
                                        key_map[edge.from_neighbor_key],
                                        key_map[edge.to_neighbor_key]),
                       !.used = acc.used \cup {edge}])

RECURSIVE RemapLists_ToOnly(_, _, _, _, _)
RemapLists_ToOnly(key_map, dead_node_ids, input_subgraph, order, acc) ==
  IF order = << >> THEN acc
  ELSE RemapLists_ToOnly(key_map, dead_node_ids, input_subgraph, Tail(order),
         RemapList_ToOnly(key_map, dead_node_ids, input_subgraph.edges[Head(order)], acc))

remap_edges_ToOnly(key_map, dead_node_ids, input_subgraph, output_subgraph, order) ==
  RemapLists_ToOnly(key_map, dead_node_ids, input_subgraph, order,
                    [panic |-> FALSE, out |-> output_subgraph, used |-> {}])

\* remap_edges: `order` is the order in which the HashMap of edge lists is
\* iterated.  The result is the output subgraph, or a panic (an endpoint
\* that is neither dead nor in the identity map)
remap_edges(key_map, dead_node_ids, input_subgraph, output_subgraph, order) ==
  RemapLists(key_map, dead_node_ids, input_subgraph, order,
             [panic |-> FALSE, out |-> output_subgraph, used |-> {}])

\* ------------------------------------------------- history store answers
\* The identity a covering interval holds.  The same raw process id "p"
\* denotes one entity at timestamp 1 and another one afterwards.
AssetCanon(k, ts) == "A1"
SessionCanon(k, ts) == IF ts = 1 THEN "S1" ELSE "S2"

\* the identity fabricated for node k of the evt-th event (a fresh uuid)
FabNames == << "F1", "F2", "F3", "F4" >>
FabId(evt, k) == FabNames[evt]
FabIds == Range(FabNames)

\* ------------------------------------------------ Asset Identity Resolver
\* map_asset_ids_to_graph.  covers[k]: the store holds an interval that
\* covers node k at the subgraph's timestamp.  done: the asset nodes looked
\* up before a store error ended the call (all of them: no error).
\* A hit rewrites the node's key in place, a miss marks the node dead.
map_asset_ids_to_graph(done, covers, unid_subgraph) ==
  LET assets == { k \in DOMAIN unid_subgraph.nodes : unid_subgraph.nodes[k].node_type = "Asset" }
  IN [graph |-> [unid_subgraph EXCEPT !.nodes =
                   [k \in DOMAIN unid_subgraph.nodes |->
                      IF k \in done /\ covers[k]
                      THEN [unid_subgraph.nodes[k] EXCEPT
                              !.node_key = AssetCanon(k, unid_subgraph.timestamp)]
                      ELSE unid_subgraph.nodes[k]]],
      dead |-> { k \in done : ~ covers[k] },
      err |-> done # assets]

\* ---------------------------------------------- Session Identity Resolver
\* the asset the session nodes of a subgraph live on
ResolvedAssetId(g) ==
  IF \E k \in DOMAIN g.nodes : g.nodes[k].node_type = "Asset"
  THEN g.nodes[CHOOSE k \in DOMAIN g.nodes : g.nodes[k].node_type = "Asset"].node_key
  ELSE "none"

\* lookup key (resolved_asset_id, raw_session_descriptor, node_type)
LookupKey(g, k) == << ResolvedAssetId(g), k, g.nodes[k].node_type >>

\* what session resolution gives node k: a cache hit, a store hit, a
\* fabricated identity (retry mode), or nothing (the node is dead)
SessionId(lru_cache, covers, g, k, default, evt) ==
  IF LookupKey(g, k) \in DOMAIN lru_cache THEN lru_cache[LookupKey(g, k)]
  ELSE IF covers[k] THEN SessionCanon(k, g.timestamp)
  ELSE IF default THEN FabId(evt, k)
  ELSE "dead"

\* map_session_ids_to_graph.  done: the nodes handled before a store error
\* ended the call (all of them: no error).  Asset nodes carry their resolved
\* key over; session nodes are resolved through the cache.
map_session_ids_to_graph(done, covers, lru_cache, unid_subgraph, output_subgraph, default, evt) ==
  LET g == unid_subgraph
      id(k) == IF g.nodes[k].node_type = "Asset" THEN g.nodes[k].node_key
               ELSE SessionId(lru_cache, covers, g, k, default, evt)
      mapped == { k \in done : id(k) # "dead" }
      stored == { k \in done : /\ g.nodes[k].node_type # "Asset"
                               /\ LookupKey(g, k) \notin DOMAIN lru_cache
                               /\ covers[k] }
  IN [key_map |-> [k \in mapped |-> id(k)],
      dead |-> done \ mapped,
      out |-> [output_subgraph EXCEPT !.nodes =
                 Override(output_subgraph.nodes,
                   [c \in { id(k) : k \in mapped } |->
                      [node_key |-> c,
                       node_type |-> g.nodes[CHOOSE k \in mapped : id(k) = c].node_type]])],
      cache |-> Override(lru_cache,
                  [l \in { LookupKey(g, k) : k \in stored } |->
                     SessionCanon((CHOOSE k \in stored : LookupKey(g, k) = l), g.timestamp)]),
      copied |-> mapped,
      err |-> done # DOMAIN g.nodes]

\* ---------------------------------------------- Content-Addressed Publisher
\* 24 * 60 * 60
SecsPerDay == 24 * 60 * 60

\* Sha256 of the uncompressed encoding.  The digest space is cut down to
\* HashMod values, so unlike Sha256 the model has collisions; equal bytes give
\* equal digests, which is all the publisher relies on.
HashMod == 11
RECURSIVE Digest(_, _)
Digest(h, bytes) ==
  IF bytes = << >> THEN h
  ELSE Digest((h * 31 + Head(bytes) + 1) % HashMod, Tail(bytes))

Sha256(bytes) == Digest(7, bytes)

\* to_base58 of a digest below 58: one digit of the base-58 alphabet
Base58Alphabet == << "1", "2", "3", "4", "5", "6", "7", "8", "9", "A", "B" >>
to_base58(digest) == Base58Alphabet[digest + 1]

\* a day bucket that rounds to the nearest day
DayBucket_Nearest(epoch) ==
  (epoch + SecsPerDay \div 2) - ((epoch + SecsPerDay \div 2) % SecsPerDay)

\* let day = epoch - (epoch % (24 * 60 * 60)); epoch is a u64 and the
\* difference cannot wrap
DayBucket(epoch) == epoch - (epoch % SecsPerDay)

\* an object key whose prefix is the upload time itself
ObjectKey_EpochPrefix(bytes, epoch) ==
  [day |-> epoch, name |-> to_base58(Sha256(bytes))]

\* format!("{}/{}", day, key): the decimal day, a slash, the base-58 digest.
\* Neither part can hold a slash, so the key is the pair of its parts.
ObjectKey(bytes, epoch) ==
  [day |-> DayBucket(epoch), name |-> to_base58(Sha256(bytes))]

\* ------------------------------------------------------------ entry points
\* handler: NodeIdentifier::new(lru_cache, false)
handler == [should_default |-> FALSE]
\* a retry entry point built like the normal one
retry_handler_NoDefault == [should_default |-> FALSE]

\* retry_handler: NodeIdentifier::new(lru_cache, true)
retry_handler == [should_default |-> TRUE]

\* ------------------------------------------------------------------ state
VARIABLES
  entry,            \* the entry point that built the NodeIdentifier
  batch,            \* subgraphs.subgraphs: the timestamps of the batch's events
  pc,               \* position in handle_event
  idx,              \* position of the loop in the sorted batch (0: before the loop)
  unid_subgraph,    \* the event's subgraph, rewritten in place
  output_subgraph,  \* the event's canonical output
  unid_id_map,      \* identity map of the event
  dead_node_ids,    \* dead set of the event
  ev_result,        \* `result` of the per-event closure
  result,           \* `result` of handle_event
  ret,              \* what handle_event returned
  total_subgraph,   \* the cumulative graph
  lru_cache,        \* the identity cache of the NodeIdentifier (a handle shared by its clones)
  upload_calls,     \* invocations of upload_identified_graphs
  published,        \* the graphs put to the bucket
  \* history of the run, read by the properties only
  raw,              \* the event's subgraph as it arrived
  covers,           \* covers[k]: the store covers node k at the event's timestamp
  stage_log,        \* the stages run for the event, in order
  asset_err,        \* the event's asset resolution ended on a store error
  asset_dead,       \* the keys the asset phase marked dead
  copied,           \* the event's nodes copied to its output
  used,             \* the input edges an output edge was made from
  last_err,         \* the last error a stage recorded
  wellformed,       \* every event so far had edges between its own nodes only
  earlier_dead,     \* the keys marked dead by the earlier events of the batch
  \* the worker process
  invocation,       \* number of the entry point's invocation in this process
  warmed,           \* the cache as the previous invocation left it
  \* the publisher
  body,             \* the uncompressed encoding given to the publisher
  clock,            \* SystemTime::now() of each upload, in seconds
  keys              \* the object key of each upload

vars == << entry, batch, pc, idx, unid_subgraph, output_subgraph, unid_id_map,
           dead_node_ids, ev_result, result, ret, total_subgraph, lru_cache,
           upload_calls, published, raw, covers, stage_log, asset_err, asset_dead,
           copied, used, last_err, wellformed, earlier_dead,
           invocation, warmed, body, clock, keys >>

worker_vars == << invocation, warmed >>
publisher_vars == << body, clock, keys >>
aux_vars == << earlier_dead, worker_vars, publisher_vars >>

should_default ==
  IF entry = "handler" THEN handler.should_default ELSE retry_handler.should_default

\* ------------------------------------------------------------------ inputs
Batches == UNION { [1..n -> Timestamps] : n \in 0..MaxEvents }

EdgesFrom(E, f) == { e \in E : e.from_neighbor_key = f }

\* the edge maps holding the edges E, each in the list keyed by its `from`
EdgeLists(E) ==
  LET froms == { e.from_neighbor_key : e \in E }
  IN { m \in [froms -> UNION { Orders(EdgesFrom(E, f)) : f \in froms }] :
         \A f \in froms : m[f] \in Orders(EdgesFrom(E, f)) }

\* the subgraphs an event with timestamp ts can decode to
RawEvents(ts) ==
  { [timestamp |-> ts,
     nodes |-> [k \in N |-> [node_key |-> k, node_type |-> NodeTypeOf(k)]],
     edges |-> l] :
    N \in SUBSET NodeKeys,
    l \in UNION { EdgeLists(E) : E \in SUBSET EdgePool } }

WellFormed(g) ==
  \A e \in AllEdges(g) : e.from_neighbor_key \in DOMAIN g.nodes
                         /\ e.to_neighbor_key \in DOMAIN g.nodes

Idle == NewGraph(0)

Init ==
  /\ entry \in {"handler", "retry_handler"}
  /\ batch \in Batches
  /\ pc = "start"
  /\ idx = 0
  /\ unid_subgraph = Idle
  /\ output_subgraph = Idle
  /\ unid_id_map = EmptyMap
  /\ dead_node_ids = {}
  /\ ev_result = Ok
  /\ result = Ok
  /\ ret = Ok
  /\ total_subgraph = Idle
  /\ lru_cache = EmptyMap
  /\ upload_calls = 0
  /\ published = << >>
  /\ raw = Idle
  /\ covers = EmptyMap
  /\ stage_log = << >>
  /\ asset_err = FALSE
  /\ asset_dead = {}
  /\ copied = {}
  /\ used = {}
  /\ last_err = Ok
  /\ wellformed = TRUE
  /\ earlier_dead = {}
  /\ invocation = 1
  /\ warmed = EmptyMap
  /\ body = << >>
  /\ clock = << >>
  /\ keys = << >>

event_vars == << unid_subgraph, output_subgraph, unid_id_map, dead_node_ids, ev_result >>
ghost_event_vars == << raw, covers, stage_log, asset_err, asset_dead, copied, used >>
ghost_run_vars == << last_err, wellformed >>

\* ------------------------------------------------------------ handle_event
\* a slot that keeps the first error it was given
Recorded_FirstWins(slot, r) == IF IsErr(slot) THEN slot ELSE r

\* `if let e @ Err(_) = r { result = e; }`: a failing stage overwrites the slot
Recorded(slot, r) == IF IsErr(r) THEN r ELSE slot

\* a return that prefers the recorded per-event error to the upload's
Returned_SlotFirst(upload, slot) == IF IsErr(slot) THEN slot ELSE upload

\* `upload_identified_graphs(total_subgraph)?; result`
Returned(upload, slot) == IF IsErr(upload) THEN upload ELSE slot

\* a handler that returns before the upload once an event has failed
UploadsWith_OkOnly(slot) == ~ IsErr(slot)

\* the statement after the loop is reached whatever the slot holds
UploadsWith(slot) == TRUE

\* a batch that is taken for empty only when it holds no event at all
is_empty_Never(subgraphs) == FALSE

\* subgraphs.subgraphs.is_empty()
is_empty(subgraphs) == subgraphs = << >>

\* a batch left in the order it was delivered
sort_unstable_by_Arrival(subgraphs) == subgraphs

\* subgraphs.subgraphs.sort_unstable_by(|a, b| a.timestamp.cmp(&b.timestamp)):
\* ascending by timestamp; the batch holds the timestamps, so the order the
\* sort is free to give events of equal timestamp does not show
sort_unstable_by(subgraphs) == SortSeq(subgraphs, LAMBDA x, y : x < y)

\* if subgraphs.subgraphs.is_empty() { return Ok(()) }
HandleEmpty ==
  /\ pc = "start"
  /\ is_empty(batch)
  /\ ret' = Ok
  /\ pc' = "done"
  /\ UNCHANGED << aux_vars, entry, batch, idx, event_vars, result, total_subgraph, lru_cache,
                  upload_calls, published, ghost_event_vars, ghost_run_vars >>

\* env::var(..)? or my::Pool::new(..)? fails: handle_event returns the error
ConnectFails ==
  /\ pc = "start"
  /\ ~ is_empty(batch)
  /\ ret' = Err("connect", 0)
  /\ pc' = "done"
  /\ UNCHANGED << aux_vars, entry, batch, idx, event_vars, result, total_subgraph, lru_cache,
                  upload_calls, published, ghost_event_vars, ghost_run_vars >>

\* the store is connected, the batch sorted by timestamp, the cumulative
\* graph created with the first timestamp, the slot set to Ok.  Indexing
\* subgraphs.subgraphs[0] of a batch without events unwinds out of
\* handle_event.
ConnectAndSort ==
  /\ pc = "start"
  /\ ~ is_empty(batch)
  /\ batch' = sort_unstable_by(batch)
  /\ IF batch' = << >>
     THEN /\ pc' = "panicked"
          /\ UNCHANGED << total_subgraph, idx >>
     ELSE /\ total_subgraph' = NewGraph(batch'[1])
          /\ idx' = 1
          /\ pc' = "loop"
  /\ result' = Ok
  /\ UNCHANGED << aux_vars, entry, event_vars, ret, lru_cache, upload_calls, published,
                  ghost_event_vars, ghost_run_vars >>

\* a dead set declared before the loop: it still holds what the earlier
\* events of the batch marked
HashSet_new_Hoisted(marked_earlier) == marked_earlier

\* let mut dead_node_ids = HashSet::new(), inside the per-event closure:
\* empty whatever the earlier events of the batch marked
HashSet_new(marked_earlier) == {}

\* the loop takes the next event: fresh output, identity map and dead set
BeginEvent ==
  /\ pc = "loop"
  /\ idx <= Len(batch)
  /\ \E g \in RawEvents(batch[idx]) :
       /\ unid_subgraph' = g
       /\ raw' = g
       /\ covers' \in [DOMAIN g.nodes -> BOOLEAN]
       /\ wellformed' = (wellformed /\ WellFormed(g))
  /\ output_subgraph' = NewGraph(batch[idx])
  /\ ev_result' = Ok
  /\ unid_id_map' = EmptyMap
  /\ dead_node_ids' = HashSet_new(earlier_dead)
  /\ stage_log' = << >>
  /\ asset_err' = FALSE
  /\ asset_dead' = {}
  /\ copied' = {}
  /\ used' = {}
  /\ pc' = "assets"
  /\ UNCHANGED << aux_vars, entry, batch, idx, result, ret, total_subgraph, lru_cache,
                  upload_calls, published, last_err >>

\* map_asset_ids_to_graph(&pool, &mut dead_node_ids, &mut unid_subgraph)
MapAssetIds ==
  /\ pc = "assets"
  /\ \E done \in SUBSET { k \in DOMAIN unid_subgraph.nodes :
                           unid_subgraph.nodes[k].node_type = "Asset" } :
       LET r == map_asset_ids_to_graph(done, covers, unid_subgraph)
           e == IF r.err THEN Err("asset", idx) ELSE Ok
       IN /\ unid_subgraph' = r.graph
          /\ dead_node_ids' = dead_node_ids \cup r.dead
          /\ ev_result' = Recorded(ev_result, e)
          /\ asset_err' = r.err
          /\ last_err' = IF r.err THEN e ELSE last_err
  /\ stage_log' = Append(stage_log, "assets")
  /\ pc' = "prune"
  /\ UNCHANGED << aux_vars, entry, batch, idx, output_subgraph, unid_id_map, result, ret,
                  total_subgraph, lru_cache, upload_calls, published, raw, covers,
                  asset_dead, copied, used, wellformed >>

\* remove_dead_nodes(&dead_node_ids, &mut unid_subgraph); dead_node_ids.clear()
RemoveDeadNodes ==
  /\ pc = "prune"
  /\ unid_subgraph' = remove_dead_nodes(dead_node_ids, unid_subgraph)
  /\ asset_dead' = dead_node_ids
  /\ dead_node_ids' = {}
  /\ stage_log' = Append(stage_log, "prune")
  /\ pc' = "sessions"
  /\ UNCHANGED << aux_vars, entry, batch, idx, output_subgraph, unid_id_map, ev_result, result,
                  ret, total_subgraph, lru_cache, upload_calls, published, raw, covers,
                  asset_err, copied, used, ghost_run_vars >>

\* map_session_ids_to_graph(&pool, &mut unid_id_map, &mut dead_node_ids,
\*   &unid_subgraph, &mut output_subgraph, self.should_default, lru_cache)
MapSessionIds ==
  /\ pc = "sessions"
  /\ \E done \in SUBSET DOMAIN unid_subgraph.nodes :
       /\ \/ done = DOMAIN unid_subgraph.nodes
          \/ \E k \in DOMAIN unid_subgraph.nodes \ done :
               unid_subgraph.nodes[k].node_type # "Asset"
       /\ LET r == map_session_ids_to_graph(done, covers, lru_cache, unid_subgraph,
                                            output_subgraph, should_default, idx)
              e == IF r.err THEN Err("session", idx) ELSE Ok
          IN /\ unid_id_map' = Override(unid_id_map, r.key_map)
             /\ dead_node_ids' = dead_node_ids \cup r.dead
             /\ output_subgraph' = r.out
             /\ lru_cache' = r.cache
             /\ copied' = r.copied
             /\ ev_result' = Recorded(ev_result, e)
             /\ last_err' = IF r.err THEN e ELSE last_err
     /\ stage_log' = Append(stage_log, "sessions")
  /\ pc' = "remap"
  /\ UNCHANGED << aux_vars, entry, batch, idx, unid_subgraph, result, ret, total_subgraph,
                  upload_calls, published, raw, covers, asset_err, asset_dead, used,
                  wellformed >>

\* remap_edges(&unid_id_map, &dead_node_ids, &unid_subgraph, &mut output_subgraph):
\* an .expect() that fails unwinds out of handle_event
RemapEdges ==
  /\ pc = "remap"
  /\ \E order \in Orders(DOMAIN unid_subgraph.edges) :
       LET r == remap_edges(unid_id_map, dead_node_ids, unid_subgraph,
                            output_subgraph, order)
       IN IF r.panic
          THEN /\ pc' = "panicked"
               /\ UNCHANGED << output_subgraph, used >>
          ELSE /\ pc' = "merge"
               /\ output_subgraph' = r.out
               /\ used' = r.used
  /\ stage_log' = Append(stage_log, "remap")
  /\ UNCHANGED << aux_vars, entry, batch, idx, unid_subgraph, unid_id_map, dead_node_ids,
                  ev_result, result, ret, total_subgraph, lru_cache, upload_calls,
                  published, raw, covers, asset_err, asset_dead, copied, ghost_run_vars >>

\* total_subgraph.merge(&output_subgraph)
Merge ==
  /\ pc = "merge"
  /\ total_subgraph' = merge(total_subgraph, output_subgraph)
  /\ stage_log' = Append(stage_log, "merge")
  /\ pc' = "return"
  /\ UNCHANGED << aux_vars, entry, batch, idx, event_vars, result, ret, lru_cache, upload_calls,
                  published, raw, covers, asset_err, asset_dead, copied, used,
                  last_err, wellformed >>

\* the closure returns its slot and ends; `if let e @ Err(_) = _result { result = e; }`
RecordResult ==
  /\ pc = "return"
  /\ result' = Recorded(result, ev_result)
  /\ idx' = idx + 1
  /\ pc' = "loop"
  \* the closure's locals go out of scope
  /\ unid_subgraph' = Idle
  /\ output_subgraph' = Idle
  /\ unid_id_map' = EmptyMap
  /\ dead_node_ids' = {}
  /\ ev_result' = Ok
  /\ raw' = Idle
  /\ covers' = EmptyMap
  /\ stage_log' = << >>
  /\ asset_err' = FALSE
  /\ asset_dead' = {}
  /\ copied' = {}
  /\ used' = {}
  /\ earlier_dead' = earlier_dead \cup asset_dead \cup dead_node_ids
  /\ UNCHANGED << worker_vars, publisher_vars, entry, batch, ret,
                  total_subgraph, lru_cache, upload_calls, published, ghost_run_vars >>

\* upload_identified_graphs(total_subgraph)?; result
\* The publisher encodes, compresses and puts the graph: the put succeeds or
\* fails with an error, and an .expect() of the publisher (encode, compress,
\* BUCKET_PREFIX) that fails unwinds out of handle_event.  The object key the
\* put is made under is ObjectKey, followed in SpecPublisher.
Upload ==
  /\ pc = "loop"
  /\ idx > Len(batch)
  /\ IF UploadsWith(result)
     THEN /\ upload_calls' = upload_calls + 1
          /\ \/ \E put \in {Ok, Err("upload", 0)} :
                  /\ published' = IF IsErr(put) THEN published
                                  ELSE Append(published, total_subgraph)
                  /\ ret' = Returned(put, result)
                  /\ pc' = "done"
             \/ /\ pc' = "upload_panicked"
                /\ UNCHANGED << published, ret >>
     ELSE /\ ret' = result
          /\ pc' = "done"
          /\ UNCHANGED << upload_calls, published >>
  /\ UNCHANGED << aux_vars, entry, batch, idx, event_vars, result, total_subgraph, lru_cache,
                  ghost_event_vars, ghost_run_vars >>

Next ==
  \/ HandleEmpty
  \/ ConnectFails
  \/ ConnectAndSort
  \/ BeginEvent
  \/ MapAssetIds
  \/ RemoveDeadNodes
  \/ MapSessionIds
  \/ RemapEdges
  \/ Merge
  \/ RecordResult
  \/ Upload

Spec == Init /\ [][Next]_vars

TypeOK ==
  /\ pc \in {"start", "loop", "assets", "prune", "sessions", "remap", "merge",
             "return", "done", "panicked", "upload_panicked",
             "fn_call", "fn_pruned", "fn_remap", "fn_remapped", "fn_panicked",
             "pub_call"}
  /\ idx \in 0..(MaxEvents + 1)
  /\ upload_calls \in 0..1

\* ------------------------------------------------------------ properties
Final == pc \in {"done", "panicked", "upload_panicked"}

NoDangling(g) ==
  \A e \in AllEdges(g) : e.from_neighbor_key \in DOMAIN g.nodes
                         /\ e.to_neighbor_key \in DOMAIN g.nodes

\* C1: once an event has recorded an error, every later event of the batch
\* is still processed.  The run stops inside the loop only by unwinding out
\* of remap_edges; the claim says this never happens after an earlier event
\* recorded an error, nor in an event that recorded one unless it is the last.
C1_ErrorNeverStopsLoop ==
  pc = "panicked" => /\ ~ IsErr(result)
                     /\ (IsErr(ev_result) => idx = Len(batch))

\* C2: when remap_edges meets an edge with no dead endpoint and an endpoint
\* absent from the identity map, only the event is aborted: the remaining
\* events are processed and the cumulative graph is published.
MeetsMissing ==
  \E e \in AllEdges(unid_subgraph) :
    /\ e.from_neighbor_key \notin dead_node_ids
    /\ e.to_neighbor_key \notin dead_node_ids
    /\ \/ e.from_neighbor_key \notin DOMAIN unid_id_map
       \/ e.to_neighbor_key \notin DOMAIN unid_id_map

C2_MissingIdentityAbortsEventOnly ==
  (Final /\ "remap" \in Range(stage_log) /\ MeetsMissing)
    => (idx > Len(batch) /\ upload_calls = 1)

\* C3: the publisher is invoked at most once and only after the last event;
\* when handle_event returns after the loop with a non-empty cumulative
\* graph it has been invoked exactly once, whatever the events recorded.
C3_PublishedOnceAfterLoop ==
  /\ upload_calls <= 1
  /\ upload_calls = 1 => idx = Len(batch) + 1
  /\ (pc = "done" /\ idx > 0 /\ NonEmpty(total_subgraph)) => upload_calls = 1

C3_Witness ==
  /\ pc = "done"
  /\ NonEmpty(total_subgraph)
  /\ IsErr(result)
  /\ upload_calls = 1
  /\ Len(batch) = 2

\* C4: when the upload succeeds, handle_event returns the last error a stage
\* recorded (Ok when none did), and the graph put is the cumulative graph.
C4_ReturnsLastError ==
  (pc = "done" /\ published # << >>)
    => (ret = last_err /\ published = << total_subgraph >>)

C4_Witness ==
  /\ pc = "done"
  /\ published # << >>
  /\ Len(batch) = 2
  /\ ret = Err("session", 1)
  /\ NonEmpty(total_subgraph)

\* C5: when the upload fails, handle_event returns the upload's error, also
\* when an event had recorded an error.
C5_UploadFailureReturned ==
  (pc = "done" /\ upload_calls = 1 /\ published = << >>) => ret = Err("upload", 0)

C5_Witness ==
  /\ pc = "done"
  /\ upload_calls = 1
  /\ published = << >>
  /\ IsErr(result)
  /\ ret = Err("upload", 0)

\* C6: a store error during asset resolution aborts the event: none of its
\* later stages runs and nothing of it is merged into the cumulative graph.
C6_AssetErrorAbortsEvent ==
  asset_err => Range(stage_log) \cap {"sessions", "remap", "merge"} = {}

\* C8: when every input subgraph had edges between its own nodes only, every
\* edge of the cumulative graph, and of the graph put, has both endpoints
\* among the graph's node keys.
C8_NoDanglingEdges ==
  wellformed => /\ NoDangling(total_subgraph)
                /\ \A i \in DOMAIN published : NoDangling(published[i])

C8_Witness ==
  /\ wellformed
  /\ published # << >>
  /\ AllEdges(published[1]) # {}
  /\ Len(batch) = 2

\* C9: in normal mode a node without covering interval at its event's
\* timestamp is not copied to the event's output (hence not merged), and no
\* output edge is made from an input edge touching it.
C9_NormalModeDropsUncovered ==
  entry = "handler" =>
    \A k \in DOMAIN covers :
      ~ covers[k] => /\ k \notin copied
                     /\ \A e \in used : k \notin {e.from_neighbor_key, e.to_neighbor_key}

\* C10 as stated: in retry mode every node of an event without covering
\* interval, asset nodes included, is in the event's output once the event's
\* resolution has ended without error.
C10_RetryKeepsEveryUncovered ==
  (entry = "retry_handler" /\ pc \in {"remap", "merge", "return"} /\ ~ IsErr(ev_result))
    => \A k \in DOMAIN raw.nodes : ~ covers[k] => k \in copied

\* C10 as amended: in retry mode session resolution marks no node dead and
\* every node it handles is in the event's output under its identity, a
\* fabricated one when neither the cache nor the store covers it; an asset
\* node found without covering interval is dropped, as in normal mode.
C10_RetryKeepsResolvedSessions ==
  (entry = "retry_handler" /\ pc \in {"remap", "merge", "return"})
    => /\ dead_node_ids = {}
       /\ \A k \in DOMAIN unid_id_map :
            /\ k \in copied
            /\ unid_id_map[k] \in DOMAIN output_subgraph.nodes
            /\ (k \in SessionKeys /\ ~ covers[k] /\ unid_id_map[k] \notin Range(lru_cache))
                 => unid_id_map[k] = FabId(idx, k)
       /\ asset_dead \cap copied = {}

C10_Witness ==
  /\ entry = "retry_handler"
  /\ pc = "return"
  /\ "p" \in DOMAIN covers /\ ~ covers["p"]
  /\ "p" \in copied
  /\ unid_id_map["p"] \in FabIds
  /\ unid_id_map["p"] \in DOMAIN total_subgraph.nodes
  /\ asset_dead = {"a"}

\* C11: the events of a batch are processed one after the other in ascending
\* timestamp order, whatever the order of delivery: the sort only permutes
\* the batch, the order is fixed afterwards, the loop moves to the next event
\* only when the current event's output has been merged and its closure has
\* returned, and while an event is being resolved every event of a smaller
\* timestamp is at an earlier position, hence done.
InEvent == pc \in {"assets", "prune", "sessions", "remap", "merge", "return"}

Occurrences(s, x) == Cardinality({ i \in DOMAIN s : s[i] = x })

IsPermutation(s, t) ==
  /\ Len(s) = Len(t)
  /\ \A x \in Range(s) \cup Range(t) : Occurrences(s, x) = Occurrences(t, x)

C11_AscendingTimestampOrder ==
  /\ [][ IF pc = "start" THEN IsPermutation(batch, batch') ELSE batch' = batch ]_vars
  /\ [][ idx' # idx => /\ idx' = idx + 1
                       /\ idx > 0 => (pc = "return" /\ "merge" \in Range(stage_log)) ]_vars
  /\ [](InEvent => \A j \in DOMAIN batch : batch[j] < batch[idx] => j < idx)

C11_Witness ==
  /\ pc = "assets"
  /\ idx = 2
  /\ batch[1] < batch[2]
  /\ NonEmpty(total_subgraph)

\* C13: for every session node the store covers at its event's timestamp,
\* resolution through the cache as earlier resolutions left it gives the
\* identity that resolution through an empty cache gives, which is the one
\* the store holds for that timestamp.
C13_WarmEqualsCold ==
  pc = "sessions" =>
    \A k \in DOMAIN unid_subgraph.nodes :
      (unid_subgraph.nodes[k].node_type # "Asset" /\ covers[k]) =>
        /\ SessionId(lru_cache, covers, unid_subgraph, k, should_default, idx)
             = SessionId(EmptyMap, covers, unid_subgraph, k, should_default, idx)
        /\ SessionId(lru_cache, covers, unid_subgraph, k, should_default, idx)
             = SessionCanon(k, unid_subgraph.timestamp)

\* C16 as stated: the dead set and the identity map are empty when an event
\* starts, and when the first event's node for a descriptor was dead and the
\* later second event's node for it resolves, neither event recording an error,
\* the cumulative graph after the second merge holds the second event's
\* output and nothing else.
FreshPerEvent == pc = "assets" => (dead_node_ids = {} /\ unid_id_map = EmptyMap)

DeadThenResolved == pc = "return" /\ idx = 2 /\ earlier_dead \cap copied # {}

C16_OnlyLaterEventPublished ==
  /\ FreshPerEvent
  /\ (DeadThenResolved /\ batch[1] < batch[2] /\ ~ IsErr(result) /\ ~ IsErr(ev_result)) =>
       /\ DOMAIN total_subgraph.nodes = DOMAIN output_subgraph.nodes
       /\ AllEdges(total_subgraph) = AllEdges(output_subgraph)

\* C16 as amended: the dead set and the identity map are empty when an event
\* starts; a key an earlier event marked dead is not dead in an event whose
\* store covers it; an event's dead keys are neither mapped nor copied to its
\* output, and the cumulative graph after the first merge is the first
\* event's output; when the first event's node for a descriptor was dead and
\* the second event's node for it resolves, the second event's output is in
\* the cumulative graph, next to what the first event resolved.
C16_DeadSetAndMapPerEvent ==
  /\ FreshPerEvent
  /\ pc \in {"remap", "merge", "return"} =>
       /\ \A k \in earlier_dead \cap DOMAIN covers :
            covers[k] => k \notin asset_dead \cup dead_node_ids
       /\ (asset_dead \cup dead_node_ids) \cap (DOMAIN unid_id_map \cup copied) = {}
  /\ (pc = "return" /\ idx = 1) =>
       /\ DOMAIN total_subgraph.nodes = DOMAIN output_subgraph.nodes
       /\ AllEdges(total_subgraph) = AllEdges(output_subgraph)
  /\ DeadThenResolved =>
       /\ DOMAIN output_subgraph.nodes \subseteq DOMAIN total_subgraph.nodes
       /\ AllEdges(output_subgraph) \subseteq AllEdges(total_subgraph)

C16_Witness ==
  /\ DeadThenResolved
  /\ "a" \in earlier_dead \cap copied
  /\ "A1" \in DOMAIN total_subgraph.nodes
  /\ "S1" \in DOMAIN total_subgraph.nodes \ DOMAIN output_subgraph.nodes

\* C19: the dead set is empty again when session resolution starts; from
\* then on no edge of the event's subgraph touches a key the asset phase
\* marked dead, and no output edge is made from an input edge with an
\* endpoint marked dead in the asset phase or in the session phase.
Endpoints(e) == {e.from_neighbor_key, e.to_neighbor_key}

C19_NoEdgeFromDeadOfEitherPhase ==
  /\ pc = "sessions" => dead_node_ids = {}
  /\ pc \in {"sessions", "remap", "merge", "return"} =>
       \A e \in AllEdges(unid_subgraph) : Endpoints(e) \cap asset_dead = {}
  /\ \A e \in used : Endpoints(e) \cap (asset_dead \cup dead_node_ids) = {}
  /\ pc \in {"merge", "return"} =>
       \A oe \in AllEdges(output_subgraph) :
         \E e \in used : /\ e \in AllEdges(raw)
                         /\ oe = Edge(e.edge_name, unid_id_map[e.from_neighbor_key],
                                      unid_id_map[e.to_neighbor_key])

C19_Witness ==
  /\ pc = "merge"
  /\ asset_dead = {"a"}
  /\ AllEdges(raw) = { Edge("hosts", "a", "p"), Edge("ran_on", "p", "a") }
  /\ "p" \in copied
  /\ AllEdges(output_subgraph) = {}

\* C20: for a batch without events handle_event returns Ok at once: it
\* neither connects to the store (no connection error, no loop) nor processes
\* an event, and it publishes nothing.
C20_EmptyBatchReturnsOk ==
  batch = << >> =>
    /\ pc \in {"start", "done"}
    /\ ret = Ok
    /\ idx = 0
    /\ stage_log = << >>
    /\ lru_cache = EmptyMap
    /\ total_subgraph = Idle
    /\ upload_calls = 0
    /\ published = << >>

C20_Witness ==
  /\ batch = << >>
  /\ pc = "done"
  /\ ret = Ok
  /\ upload_calls = 0

\* ------------------------------------------------- the rewriter on its own
\* remove_dead_nodes applied to any subgraph and any dead set
FnKeys == {"a", "p", "q"}
FnEdgePool == { Edge("created", "p", "q"), Edge("ran_on", "q", "a"), Edge("hosts", "a", "p") }
FnLists == UNION { [1..n -> FnEdgePool] : n \in 0..MaxList }

FnGraphs ==
  { [timestamp |-> 1,
     nodes |-> [k \in N |-> [node_key |-> k, node_type |-> NodeTypeOf(k)]],
     edges |-> l] :
    N \in SUBSET FnKeys,
    l \in UNION { [D -> FnLists] : D \in SUBSET {"p", "q"} } }

\* identity maps given to remap_edges: one to one, many to one, and one
\* that leaves "q" out
FnKeyMaps ==
  { [a |-> "A1", p |-> "S1", q |-> "S2"],
    [a |-> "A1", p |-> "S1", q |-> "S1"],
    [a |-> "A1", p |-> "S1"] }

\* outputs given to remap_edges: the canonical nodes, without edges or with
\* an edge list already
FnOutputNodes ==
  [c \in {"A1", "S1", "S2"} |->
     [node_key |-> c, node_type |-> IF c = "A1" THEN "Asset" ELSE "Process"]]

FnOutputs ==
  { [timestamp |-> 1, nodes |-> FnOutputNodes, edges |-> EmptyMap],
    [timestamp |-> 1, nodes |-> FnOutputNodes,
     edges |-> [c \in {"S1"} |-> << Edge("created", "S1", "S2") >>]] }

InitRewriter ==
  /\ entry = "handler"
  /\ batch = << >>
  /\ idx = 0
  /\ unid_subgraph \in FnGraphs
  /\ raw = unid_subgraph
  /\ dead_node_ids \in SUBSET FnKeys
  /\ \/ /\ pc = "fn_call"
        /\ output_subgraph = Idle
        /\ unid_id_map = EmptyMap
     \/ /\ pc = "fn_remap"
        /\ output_subgraph \in FnOutputs
        /\ unid_id_map \in FnKeyMaps
  /\ ev_result = Ok
  /\ result = Ok
  /\ ret = Ok
  /\ total_subgraph = Idle
  /\ lru_cache = EmptyMap
  /\ upload_calls = 0
  /\ published = << >>
  /\ covers = EmptyMap
  /\ stage_log = << >>
  /\ asset_err = FALSE
  /\ asset_dead = {}
  /\ copied = {}
  /\ used = {}
  /\ last_err = Ok
  /\ wellformed = TRUE
  /\ earlier_dead = {}
  /\ invocation = 1
  /\ warmed = EmptyMap
  /\ body = << >>
  /\ clock = << >>
  /\ keys = << >>

FnRemoveDeadNodes ==
  /\ pc = "fn_call"
  /\ unid_subgraph' = remove_dead_nodes(dead_node_ids, unid_subgraph)
  /\ pc' = "fn_pruned"
  /\ UNCHANGED << aux_vars, entry, batch, idx, output_subgraph, unid_id_map, dead_node_ids,
                  ev_result, result, ret, total_subgraph, lru_cache, upload_calls,
                  published, ghost_event_vars, ghost_run_vars >>

\* remap_edges(&key_map, &dead_node_ids, &input_subgraph, &mut output_subgraph)
FnRemapEdges ==
  /\ pc = "fn_remap"
  /\ \E order \in Orders(DOMAIN unid_subgraph.edges) :
       LET r == remap_edges(unid_id_map, dead_node_ids, unid_subgraph,
                            output_subgraph, order)
       IN IF r.panic
          THEN /\ pc' = "fn_panicked"
               /\ UNCHANGED << output_subgraph, used >>
          ELSE /\ pc' = "fn_remapped"
               /\ output_subgraph' = r.out
               /\ used' = r.used
  /\ UNCHANGED << aux_vars, entry, batch, idx, unid_subgraph, unid_id_map, dead_node_ids,
                  ev_result, result, ret, total_subgraph, lru_cache, upload_calls,
                  published, raw, covers, stage_log, asset_err, asset_dead, copied,
                  ghost_run_vars >>

NextRewriter == FnRemoveDeadNodes \/ FnRemapEdges

SpecRewriter == InitRewriter /\ [][NextRewriter]_vars

\* C7: after remove_dead_nodes no node with a dead key is left and no edge
\* of any edge list has a dead key as its from or to endpoint.
C7_NoDeadLeft ==
  pc = "fn_pruned" =>
    /\ DOMAIN unid_subgraph.nodes \cap dead_node_ids = {}
    /\ \A k \in DOMAIN unid_subgraph.edges :
         \A i \in DOMAIN unid_subgraph.edges[k] :
           /\ unid_subgraph.edges[k][i].from_neighbor_key \notin dead_node_ids
           /\ unid_subgraph.edges[k][i].to_neighbor_key \notin dead_node_ids

C7_Witness ==
  /\ pc = "fn_pruned"
  /\ dead_node_ids = {"q"}
  /\ "q" \in DOMAIN raw.nodes
  /\ "p" \in DOMAIN raw.edges
  /\ raw.edges["p"] = << Edge("created", "p", "q"), Edge("hosts", "a", "p") >>
  /\ unid_subgraph.edges["p"] = << Edge("hosts", "a", "p") >>

\* C17: when every endpoint that is not dead is in the identity map,
\* remap_edges ends without unwinding; when it ends, the output's edge lists
\* are the ones it had, each extended at its end, and an edge occurs in the
\* list keyed by its canonical from key once more for every occurrence of an
\* input edge with no dead endpoint, the same edge_name and from/to mapped
\* to it; nothing else is added, and the input subgraph, the identity map and
\* the output's nodes are as before.
LiveEdgeAt(g, dead) ==
  { ki \in UNION { { << k, i >> : i \in DOMAIN g.edges[k] } : k \in DOMAIN g.edges } :
      /\ g.edges[ki[1]][ki[2]].from_neighbor_key \notin dead
      /\ g.edges[ki[1]][ki[2]].to_neighbor_key \notin dead }

MappedOnLive(key_map, g, dead) ==
  \A ki \in LiveEdgeAt(g, dead) :
    /\ g.edges[ki[1]][ki[2]].from_neighbor_key \in DOMAIN key_map
    /\ g.edges[ki[1]][ki[2]].to_neighbor_key \in DOMAIN key_map

ImagesAt(key_map, g, dead, ce) ==
  { ki \in LiveEdgeAt(g, dead) :
      LET e == g.edges[ki[1]][ki[2]]
      IN /\ e.edge_name = ce.edge_name
         /\ key_map[e.from_neighbor_key] = ce.from_neighbor_key
         /\ key_map[e.to_neighbor_key] = ce.to_neighbor_key }

ListOf(g, k) == IF k \in DOMAIN g.edges THEN g.edges[k] ELSE << >>

IsPrefix(s, t) == Len(s) <= Len(t) /\ SubSeq(t, 1, Len(s)) = s

C17_RemapEdgesAppendsImages ==
  [][ pc = "fn_remap" =>
        /\ MappedOnLive(unid_id_map, unid_subgraph, dead_node_ids) => pc' = "fn_remapped"
        /\ pc' = "fn_remapped" =>
             /\ unid_subgraph' = unid_subgraph
             /\ unid_id_map' = unid_id_map
             /\ output_subgraph'.nodes = output_subgraph.nodes
             /\ output_subgraph'.timestamp = output_subgraph.timestamp
             /\ DOMAIN output_subgraph.edges \subseteq DOMAIN output_subgraph'.edges
             /\ \A c \in DOMAIN output_subgraph'.edges :
                  /\ IsPrefix(ListOf(output_subgraph, c), output_subgraph'.edges[c])
                  /\ Len(output_subgraph'.edges[c]) > 0
                  /\ \A i \in DOMAIN output_subgraph'.edges[c] :
                       output_subgraph'.edges[c][i].from_neighbor_key = c
                  /\ \A ce \in Range(output_subgraph'.edges[c]) :
                       Occurrences(output_subgraph'.edges[c], ce)
                         = Occurrences(ListOf(output_subgraph, c), ce)
                           + Cardinality(ImagesAt(unid_id_map, unid_subgraph,
                                                  dead_node_ids, ce))
             /\ \A ki \in LiveEdgeAt(unid_subgraph, dead_node_ids) :
                  LET e == unid_subgraph.edges[ki[1]][ki[2]]
                  IN Edge(e.edge_name, unid_id_map[e.from_neighbor_key],
                          unid_id_map[e.to_neighbor_key])
                       \in Range(ListOf(output_subgraph', unid_id_map[e.from_neighbor_key]))
    ]_vars

C17_Witness ==
  /\ pc = "fn_remapped"
  /\ dead_node_ids = {"a"}
  /\ unid_id_map = [a |-> "A1", p |-> "S1", q |-> "S1"]
  /\ unid_subgraph.edges = [k \in {"p"} |-> << Edge("created", "p", "q"), Edge("hosts", "a", "p") >>]
  /\ output_subgraph.edges =
       [c \in {"S1"} |-> << Edge("created", "S1", "S2"), Edge("created", "S1", "S1") >>]

\* C18: remove_dead_nodes only removes: a node whose key is not dead is left
\* as it was and no node is added; every edge list is still there and holds
\* the edges it had with neither endpoint dead, each as it was, in the order
\* they had, and nothing else.
LiveIn(list, dead) ==
  { i \in DOMAIN list : /\ list[i].from_neighbor_key \notin dead
                        /\ list[i].to_neighbor_key \notin dead }

C18_RemoveDeadNodesOnlyRemoves ==
  pc = "fn_pruned" =>
    /\ DOMAIN unid_subgraph.nodes \subseteq DOMAIN raw.nodes
    /\ \A k \in DOMAIN raw.nodes \ dead_node_ids :
         k \in DOMAIN unid_subgraph.nodes /\ unid_subgraph.nodes[k] = raw.nodes[k]
    /\ unid_subgraph.timestamp = raw.timestamp
    /\ DOMAIN unid_subgraph.edges = DOMAIN raw.edges
    /\ \A k \in DOMAIN raw.edges :
         LET live == LiveIn(raw.edges[k], dead_node_ids)
         IN /\ Len(unid_subgraph.edges[k]) = Cardinality(live)
            /\ \A i \in live :
                 unid_subgraph.edges[k][Cardinality({ j \in live : j <= i })]
                   = raw.edges[k][i]

C18_Witness ==
  /\ pc = "fn_pruned"
  /\ dead_node_ids = {"a"}
  /\ DOMAIN raw.nodes = {"a", "p", "q"}
  /\ raw.edges = [k \in {"p", "q"} |->
                    IF k = "p" THEN << Edge("created", "p", "q"), Edge("ran_on", "q", "a") >>
                    ELSE << Edge("hosts", "a", "p"), Edge("created", "p", "q") >>]
  /\ DOMAIN unid_subgraph.nodes = {"p", "q"}
  /\ unid_subgraph.edges = [k \in {"p", "q"} |-> << Edge("created", "p", "q") >>]

\* ------------------------------------------------------ the worker process
\* IdentityCache::new(max_count, time_to_live, b"pepper"): the entry point
\* builds the cache it hands to NodeIdentifier::new
IdentityCache_new == EmptyMap

\* The trigger invokes the entry point again in the same process, after the
\* previous invocation has returned and well within the time to live of the
\* entries (5 minutes) and the capacity (100,000 entries).  The entry point
\* builds a cache and a NodeIdentifier, and hands the batch to handle_event.
Invoke ==
  /\ pc = "done"
  /\ invocation < MaxInvocations
  /\ invocation' = invocation + 1
  /\ warmed' = lru_cache
  /\ lru_cache' = IdentityCache_new
  /\ batch' \in Batches
  /\ pc' = "start"
  /\ idx' = 0
  /\ ret' = Ok
  /\ result' = Ok
  /\ total_subgraph' = Idle
  /\ upload_calls' = 0
  /\ published' = << >>
  /\ earlier_dead' = {}
  /\ last_err' = Ok
  /\ wellformed' = TRUE
  /\ UNCHANGED << entry, event_vars, ghost_event_vars, publisher_vars >>

NextWorker == Next \/ Invoke

SpecWorker == Init /\ [][NextWorker]_vars

\* C12: an identity the previous invocation left in the cache is in the
\* cache, with the same value, when the next invocation of the same worker
\* process starts.
C12_CacheSurvivesInvocation ==
  (invocation > 1 /\ pc = "start") =>
    \A l \in DOMAIN warmed : l \in DOMAIN lru_cache /\ lru_cache[l] = warmed[l]

\* ------------------------------------------------ the publisher on its own
\* upload_identified_graphs given the same encoding at several times
Bodies == UNION { [1..n -> {0, 1}] : n \in 0..MaxBody }

\* seconds within a day: its first two, the two around noon, its last
DayOffsets == {0, 1, SecsPerDay \div 2 - 1, SecsPerDay \div 2, SecsPerDay - 1}
Epochs == { d * SecsPerDay + r : d \in 0..MaxDay, r \in DayOffsets }

InitPublisher ==
  /\ entry = "handler"
  /\ batch = << >>
  /\ pc = "pub_call"
  /\ idx = 0
  /\ unid_subgraph = Idle
  /\ raw = Idle
  /\ dead_node_ids = {}
  /\ output_subgraph = Idle
  /\ unid_id_map = EmptyMap
  /\ ev_result = Ok
  /\ result = Ok
  /\ ret = Ok
  /\ total_subgraph = Idle
  /\ lru_cache = EmptyMap
  /\ upload_calls = 0
  /\ published = << >>
  /\ covers = EmptyMap
  /\ stage_log = << >>
  /\ asset_err = FALSE
  /\ asset_dead = {}
  /\ copied = {}
  /\ used = {}
  /\ last_err = Ok
  /\ wellformed = TRUE
  /\ earlier_dead = {}
  /\ invocation = 1
  /\ warmed = EmptyMap
  /\ body \in Bodies
  /\ clock = << >>
  /\ keys = << >>

\* the key is computed from the encoding and the clock before the put is
\* made, whatever the put then answers
FnUpload ==
  /\ pc = "pub_call"
  /\ Len(keys) < MaxUploads
  /\ \E epoch \in Epochs :
       /\ clock' = Append(clock, epoch)
       /\ keys' = Append(keys, ObjectKey(body, epoch))
  /\ UNCHANGED << earlier_dead, worker_vars, body, entry, batch, pc, idx, event_vars,
                  result, ret, total_subgraph, lru_cache, upload_calls, published,
                  ghost_event_vars, ghost_run_vars >>

NextPublisher == FnUpload

SpecPublisher == InitPublisher /\ [][NextPublisher]_vars

\* C14 as stated: the same encoding uploaded at any two times gets the same
\* object key.
C14_SameBytesSameKey ==
  \A i, j \in DOMAIN keys : keys[i] = keys[j]

\* C14 as amended: the same encoding uploaded at two times gets the same
\* digest part both times, and the same object key exactly when the two
\* times lie in the same day.
C14_SameBytesSameKeyWithinDay ==
  \A i, j \in DOMAIN keys :
    /\ keys[i].name = keys[j].name
    /\ keys[i] = keys[j] <=> (clock[i] \div SecsPerDay = clock[j] \div SecsPerDay)

C14_Witness ==
  /\ Len(keys) = 2
  /\ clock = << SecsPerDay + 1, 2 * SecsPerDay - 1 >>
  /\ keys[1] = keys[2]
  /\ body # << >>

\* C15: the day part of the object key is the multiple of 86,400 with
\* day <= epoch < day + 86,400.
C15_DayBucketFloor ==
  \A i \in DOMAIN keys :
    /\ \E n \in 0..MaxDay + 1 : keys[i].day = n * 86400
    /\ keys[i].day <= clock[i]
    /\ clock[i] < keys[i].day + 86400

C15_Witness ==
  /\ Len(keys) = 1
  /\ clock[1] = 2 * SecsPerDay - 1
  /\ keys[1].day = SecsPerDay

====
